---- MODULE Spec2Model ----
(***************************************************************************)
(* Alpha-Rocket.py: the CircuitPython telemetry logger.  The script is a   *)
(* straight-line start-up (baselines, log file creation) followed by one   *)
(* endless loop; the model follows it statement group by statement group,  *)
(* with pc naming the next group to run.                                   *)
(*                                                                         *)
(* Units.  Python floats are carried as integers in fixed point:           *)
(*   time            ms          (time.monotonic() seconds * 1000)         *)
(*   acceleration    mm/s^2      (9.80665 m/s^2 is 9807)                   *)
(*   gyro rate       deg/s                                                 *)
(*   pressure        0.01 hPa    (1013.25 hPa is 101325)                   *)
(*   angles          millidegree                                           *)
(*   altitude        mm                                                    *)
(*   accel_g         milli-g                                               *)
(* Products that the code rounds to a double are rounded down to the unit. *)
(***************************************************************************)
EXTENDS Integers, Sequences, FiniteSets, TLC

\* ------------------------------------------------------------ bounds
MaxIter == 2          \* loop iterations explored with free sensor input
MaxIterBench == 50    \* loop iterations explored with the payload at rest
MaxFiles == 2         \* log_001 .. log_00N may exist before the run
MaxLate == 1          \* oversleeps explored in a bench run

\* ------------------------------------------------- program constants
flush_every == 25     \* line 64
SleepMs == 50         \* line 103: time.sleep(0.05)
StatusMs == 1000      \* line 99: >= 1.0
alpha == 98           \* line 85: alpha = 0.98, in percent
G0 == 980665          \* line 90: 9.80665, in 1e-5 m/s^2
K_ALT == 44330        \* line 81: 44330.0

Header == "alt_m,accel_g,roll_deg,pitch_deg"

\* ------------------------------------------------------- environment
\* Readings the sensors can deliver.  Nothing in the script restricts the
\* pressure reading to positive values.
Level == <<0, 0, 9807>>
Tilted == <<9807, 9807, 0>>
Accels == {Level, Tilted}
Gyros == {<<0, 0>>, <<10, -10>>}
Pressures == {-90000, 0, 90000, 101325}
Baselines == {-90000, 0, 101325}
BenchPressures == {101325}

\* ----------------------------------------------------------- helpers
Abs(x) == IF x < 0 THEN -x ELSE x

RECURSIVE Pow10(_)
Pow10(d) == IF d = 0 THEN 1 ELSE 10 * Pow10(d - 1)

RECURSIVE PadLeft(_, _)
\* the zero padding of {n:03d} and of the fraction digits of {x:.2f}
PadLeft(s, w) == IF Len(s) >= w THEN s ELSE PadLeft("0" \o s, w)

\* f"{path}/{prefix}{n:03d}{ext}" with the default arguments (line 40)
CsvName(k) == "/logs/log_" \o PadLeft(ToString(k), 3) \o ".csv"

\* f"{x:.<d>f}" of a value carried in thousandths: round to d decimals
\* (ties to even), keep the sign of a negative value even when it rounds
\* to zero, pad the fraction to d digits.
Fmt(x, d) ==
    LET q == Pow10(3 - d)
        a == Abs(x)
        lo == a \div q
        rem == a % q
        r == IF 2 * rem > q \/ (2 * rem = q /\ lo % 2 = 1) THEN lo + 1 ELSE lo
        ip == r \div Pow10(d)
        fr == r % Pow10(d)
    IN  (IF x < 0 THEN "-" ELSE "") \o ToString(ip) \o "." \o PadLeft(ToString(fr), d)

RECURSIVE SqrtSearch(_, _, _)
SqrtSearch(v, lo, hi) ==
    IF lo >= hi THEN lo
    ELSE LET mid == (lo + hi + 1) \div 2
         IN  IF mid * mid <= v THEN SqrtSearch(v, mid, hi)
             ELSE SqrtSearch(v, lo, mid - 1)

\* math.sqrt, rounded down to the unit (arguments stay below 2^31)
Sqrt(v) == SqrtSearch(v, 0, 46340)

\* math.degrees(math.atan2(y, x)) in millidegrees, on the directions where
\* it is exact: the axes and the diagonals.  atan2(0, 0) is 0.
Atan2Deg(y, x) ==
    CASE y = 0 /\ x >= 0 -> 0
      [] y = 0 /\ x < 0 -> 180000
      [] x = 0 /\ y > 0 -> 90000
      [] x = 0 /\ y < 0 -> -90000
      [] x > 0 /\ y = x -> 45000
      [] x > 0 /\ y = -x -> -45000
      [] x < 0 /\ y = -x -> 135000
      [] x < 0 /\ y = x -> -135000

\* lines 47-50
accel_angles_deg(ax, ay, az) ==
    <<Atan2Deg(ay, az), Atan2Deg(-ax, Sqrt(ay * ay + az * az))>>

\* pow(p / p0, 1.0 / 5.255) for a positive ratio, in millionths
PowRatio(p, p0) ==
    CASE p = p0 -> 1000000
      [] p = 90000 /\ p0 = 101325 -> 977698
      [] p = 101325 /\ p0 = 90000 -> 1022811

Real(v) == [kind |-> "real", v |-> v]
Complex == [kind |-> "complex", v |-> 0]
Raise == [kind |-> "raise", v |-> 0]

\* 44330.0 * (1.0 - r) for r in millionths, in mm (split to stay in range)
AltFromRatio(r) ==
    LET d == 1000000 - r
    IN  K_ALT * (d \div 1000) + (K_ALT * (d % 1000)) \div 1000

\* line 81: every outcome the expression can have.
\*   p0 = 0             float division by zero raises
\*   p / p0 < 0         a negative base to a fractional power: a complex
\*                      number where the build has complex, else ValueError
\*   p = 0              pow(0.0, y) = 0.0 (also for -0.0), so 44330.0
AltOutcomes(p, p0) ==
    IF p0 = 0 THEN {Raise}
    ELSE IF p = 0 THEN {Real(AltFromRatio(0))}
    ELSE IF (p < 0) # (p0 < 0) THEN {Raise, Complex}
    ELSE {Real(AltFromRatio(PowRatio(Abs(p), Abs(p0))))}

BlendNoAccel(prev, rate, dt_ms, acc) ==
    (alpha * (prev + rate * dt_ms)) \div 100

\* lines 86-87: alpha * (prev + rate * dt) + (1 - alpha) * acc
Blend(prev, rate, dt_ms, acc) ==
    (alpha * (prev + rate * dt_ms) + (100 - alpha) * acc) \div 100

\* line 90: sqrt(ax*ax + ay*ay + az*az) / 9.80665, in milli-g
AccelG(ax, ay, az) == (Sqrt(ax * ax + ay * ay + az * az) * 100000) \div G0

\* line 93 without the newline.  A complex alt_m has no .2f rendering on
\* CircuitPython (the format raises); CPython renders "re+imj", kept here
\* as a token.
AltText(a) == IF a.kind = "real" THEN Fmt(a.v, 2) ELSE "(complex)"
RecordLine(a, g, r, p) ==
    AltText(a) \o "," \o Fmt(g, 3) \o "," \o Fmt(r, 2) \o "," \o Fmt(p, 2)

\* line 100 (the degree sign written "deg")
StatusLine(a, g, r, p) ==
    "alt=" \o AltText(a) \o " m, a=" \o Fmt(g, 3) \o " g, roll=" \o Fmt(r, 1)
        \o "deg, pitch=" \o Fmt(p, 1) \o "deg"

\* ------------------------------------------------------------- state
VARIABLES
    pc,           \* next statement group
    clock,        \* time.monotonic(), ms
    fs,           \* files of /logs on the medium: name -> lines
    logs_dir,     \* /logs exists
    f,            \* the file object bound to f: [id, mode, open, buf]
    p0, roll, pitch, last_t, last_status,
    n, csv_path, line_count,
    now, dt, sample, alt_m, accel_g,
    status_out,   \* status lines printed (line 100)
    h             \* history, read by no statement of the program

vars == <<pc, clock, fs, logs_dir, f, p0, roll, pitch, last_t, last_status,
          n, csv_path, line_count, now, dt, sample, alt_m, accel_g, status_out,
          h>>

NoFile == [id |-> 0, mode |-> "", open |-> FALSE, buf |-> <<>>]
NoSample == [accel |-> <<0, 0, 0>>, gyro |-> <<0, 0>>, p |-> 0]

OldLog == <<Header, "0.00,1.000,0.00,0.00">>

\* What the file holds for a reader once the buffer is written through.
LogContent ==
    IF csv_path \in DOMAIN fs
    THEN fs[csv_path] \o (IF f.open THEN f.buf ELSE <<>>)
    ELSE <<>>

LoopPcs == {"tick", "sense", "compute", "write", "flush", "status", "sleep"}

\* The state at line 52, before any baseline is read.  fileSets: the sets of
\* logs that may exist already; T: what the monotonic clock may read.
InitWith(fileSets, T) ==
    /\ pc = "capture"
    /\ clock \in T
    /\ \E names \in fileSets : fs = [nm \in names |-> OldLog]
    /\ logs_dir \in BOOLEAN
    /\ (DOMAIN fs # {} => logs_dir)
    /\ f = NoFile
    /\ p0 = 0 /\ roll = 0 /\ pitch = 0 /\ last_t = 0 /\ last_status = 0
    /\ n = 0 /\ csv_path = "" /\ line_count = 0
    /\ now = 0 /\ dt = 0 /\ sample = NoSample /\ alt_m = Real(0) /\ accel_g = 0
    /\ status_out = <<>>
    /\ h = [fs0 |-> fs, steps |-> <<>>, t0 |-> 0, dt_sum |-> 0, iters |-> 0,
            flushes |-> 0, late |-> 0, static |-> TRUE, seed |-> <<0, 0, 0>>,
            hdr_by |-> 0, rec_by |-> {}, opened |-> 0]

\* open(name, "r") succeeds exactly when the file exists (line 42)
open_r_fails_always(files, name) == FALSE
open_r_ok(files, name) == name \in DOMAIN files

\* open(path, "w") creates the file, or truncates it (line 61)
open_w(files, path) ==
    [nm \in DOMAIN files \cup {path} |-> IF nm = path THEN <<>> ELSE files[nm]]

\* open(path, "a") creates the file if it is missing and keeps what it
\* holds (line 70)
open_a_truncating(files, path) ==
    [nm \in DOMAIN files \cup {path} |-> IF nm = path THEN <<>> ELSE files[nm]]
open_a(files, path) ==
    [nm \in DOMAIN files \cup {path} |-> IF nm \in DOMAIN files THEN files[nm] ELSE <<>>]

\* ----------------------------------------------------------- start-up
\* line 53
CaptureP0(P) ==
    /\ pc = "capture"
    /\ \E p \in P : p0' = p
    /\ h' = [h EXCEPT !.steps = Append(@, "p0")]
    /\ pc' = "seed"
    /\ UNCHANGED <<clock, fs, logs_dir, f, roll, pitch, last_t, last_status, n,
                   csv_path, line_count, now, dt, sample, alt_m, accel_g,
                   status_out>>

\* line 54: the accelerometer-only estimate, no gyro term
SeedAttitude(A) ==
    /\ pc = "seed"
    /\ \E a \in A :
          /\ roll' = accel_angles_deg(a[1], a[2], a[3])[1]
          /\ pitch' = accel_angles_deg(a[1], a[2], a[3])[2]
          /\ h' = [h EXCEPT !.steps = Append(@, "attitude"), !.seed = a]
    /\ pc' = "clock"
    /\ UNCHANGED <<clock, fs, logs_dir, f, p0, last_t, last_status, n, csv_path,
                   line_count, now, dt, sample, alt_m, accel_g, status_out>>

StampClockStatusZero ==
    /\ pc = "clock"
    /\ last_t' = clock
    /\ last_status' = 0
    /\ h' = [h EXCEPT !.steps = Append(@, "clock"), !.t0 = clock]
    /\ pc' = "mkdir"
    /\ UNCHANGED <<clock, fs, logs_dir, f, p0, roll, pitch, n, csv_path,
                   line_count, now, dt, sample, alt_m, accel_g, status_out>>

\* lines 55-56
StampClock ==
    /\ pc = "clock"
    /\ last_t' = clock
    /\ last_status' = clock
    /\ h' = [h EXCEPT !.steps = Append(@, "clock"), !.t0 = clock]
    /\ pc' = "mkdir"
    /\ UNCHANGED <<clock, fs, logs_dir, f, p0, roll, pitch, n, csv_path,
                   line_count, now, dt, sample, alt_m, accel_g, status_out>>

\* lines 31-35, 59: mkdir, an OSError (the directory exists) swallowed
ensure_dir ==
    /\ pc = "mkdir"
    /\ logs_dir' = TRUE
    /\ pc' = "next_csv"
    /\ UNCHANGED <<clock, fs, f, p0, roll, pitch, last_t, last_status, n,
                   csv_path, line_count, now, dt, sample, alt_m, accel_g,
                   status_out, h>>

\* line 38
next_csv_enter ==
    /\ pc = "next_csv"
    /\ n' = 1
    /\ pc' = "probe"
    /\ UNCHANGED <<clock, fs, logs_dir, f, p0, roll, pitch, last_t, last_status,
                   csv_path, line_count, now, dt, sample, alt_m, accel_g,
                   status_out, h>>

\* lines 39-45, 60: one pass of the probe loop
next_csv_probe ==
    /\ pc = "probe"
    /\ IF open_r_ok(fs, CsvName(n))
       THEN /\ n' = n + 1
            /\ UNCHANGED <<pc, csv_path>>
       ELSE /\ csv_path' = CsvName(n)
            /\ pc' = "create"
            /\ UNCHANGED n
    /\ UNCHANGED <<clock, fs, logs_dir, f, p0, roll, pitch, last_t, last_status,
                   line_count, now, dt, sample, alt_m, accel_g, status_out, h>>

\* line 61.  The file operations of start-up take some time in D.
CreateLog(D) ==
    /\ pc = "create"
    /\ fs' = open_w(fs, csv_path)
    /\ f' = [id |-> h.opened + 1, mode |-> "w", open |-> TRUE, buf |-> <<>>]
    /\ h' = [h EXCEPT !.opened = @ + 1]
    /\ \E d \in D : clock' = clock + d
    /\ pc' = "header"
    /\ UNCHANGED <<logs_dir, p0, roll, pitch, last_t, last_status, n, csv_path,
                   line_count, now, dt, sample, alt_m, accel_g, status_out>>

\* line 62
WriteHeader ==
    /\ pc = "header"
    /\ f' = [f EXCEPT !.buf = Append(@, Header)]
    /\ h' = [h EXCEPT !.steps = Append(@, "file"), !.hdr_by = f.id]
    /\ pc' = "close"
    /\ UNCHANGED <<clock, fs, logs_dir, p0, roll, pitch, last_t, last_status, n,
                   csv_path, line_count, now, dt, sample, alt_m, accel_g,
                   status_out>>

\* Leaving a with block closes the file: the buffer is written through.
Closed(file) == [file EXCEPT !.open = FALSE, !.buf = <<>>]
WrittenThrough(files, file, path) ==
    [files EXCEPT ![path] = @ \o file.buf]

\* end of the with block of lines 61-62
CloseHeader ==
    /\ pc = "close"
    /\ fs' = WrittenThrough(fs, f, csv_path)
    /\ f' = Closed(f)
    /\ pc' = "counters"
    /\ UNCHANGED <<clock, logs_dir, p0, roll, pitch, last_t, last_status, n,
                   csv_path, line_count, now, dt, sample, alt_m, accel_g,
                   status_out, h>>

\* lines 64-67
InitCounters ==
    /\ pc = "counters"
    /\ line_count' = 0
    /\ pc' = "open_a"
    /\ UNCHANGED <<clock, fs, logs_dir, f, p0, roll, pitch, last_t, last_status,
                   n, csv_path, now, dt, sample, alt_m, accel_g, status_out, h>>

\* line 70: a second file object, in append mode
OpenAppend ==
    /\ pc = "open_a"
    /\ f' = [id |-> h.opened + 1, mode |-> "a", open |-> TRUE, buf |-> <<>>]
    /\ h' = [h EXCEPT !.opened = @ + 1]
    /\ fs' = open_a(fs, csv_path)
    /\ pc' = "tick"
    /\ UNCHANGED <<clock, logs_dir, p0, roll, pitch, last_t, last_status, n,
                   csv_path, line_count, now, dt, sample, alt_m, accel_g,
                   status_out>>

\* ---------------------------------------------------------------- loop
\* An exception leaves the with block of line 70, which closes the file, and
\* ends the script.
Crash ==
    /\ pc' = "crashed"
    /\ fs' = WrittenThrough(fs, f, csv_path)
    /\ f' = Closed(f)

\* line 73: dt = now - last_t
ElapsedNominal(t, prev) == SleepMs
Elapsed(t, prev) == t - prev

\* lines 72-74.  maxIter caps the run.
Tick(maxIter) ==
    /\ pc = "tick"
    /\ h.iters < maxIter
    /\ now' = clock
    /\ dt' = Elapsed(clock, last_t)
    /\ last_t' = clock
    /\ pc' = "sense"
    /\ UNCHANGED <<clock, fs, logs_dir, f, p0, roll, pitch, last_status, n,
                   csv_path, line_count, sample, alt_m, accel_g, status_out, h>>

\* Static input: the seed's acceleration again, no rotation, the baseline
\* pressure.
IsStatic(s) == s.accel = h.seed /\ s.gyro = <<0, 0>> /\ s.p = p0

\* lines 76-78: gz is read and never used
Sense(A, G, P) ==
    /\ pc = "sense"
    /\ \E a \in A, g \in G, p \in P :
          sample' = [accel |-> a, gyro |-> g, p |-> p]
    /\ h' = [h EXCEPT !.static = @ /\ IsStatic(sample')]
    /\ pc' = "compute"
    /\ UNCHANGED <<clock, fs, logs_dir, f, p0, roll, pitch, last_t, last_status,
                   n, csv_path, line_count, now, dt, alt_m, accel_g, status_out>>

\* lines 81-90
Compute ==
    /\ pc = "compute"
    /\ \E o \in AltOutcomes(sample.p, p0) :
          IF o = Raise
          THEN /\ Crash
               /\ UNCHANGED <<alt_m, roll, pitch, accel_g, h>>
          ELSE LET ax == sample.accel[1]
                   ay == sample.accel[2]
                   az == sample.accel[3]
                   acc == accel_angles_deg(ax, ay, az)
               IN  /\ alt_m' = o
                   /\ roll' = Blend(roll, sample.gyro[1], dt, acc[1])
                   /\ pitch' = Blend(pitch, sample.gyro[2], dt, acc[2])
                   /\ accel_g' = AccelG(ax, ay, az)
                   /\ h' = [h EXCEPT !.dt_sum = @ + dt]
                   /\ pc' = "write"
                   /\ UNCHANGED <<fs, f>>
    /\ UNCHANGED <<clock, logs_dir, p0, last_t, last_status, n, csv_path,
                   line_count, now, dt, sample, status_out>>

\* The builds on which "{:.2f}" renders the value: a complex alt_m renders
\* on CPython only.
Renders(a) == IF a.kind = "real" THEN {TRUE} ELSE {TRUE, FALSE}

\* lines 93-94
WriteRecord ==
    /\ pc = "write"
    /\ \E ok \in Renders(alt_m) :
          IF ok
          THEN /\ f' = [f EXCEPT !.buf = Append(@, RecordLine(alt_m, accel_g, roll, pitch))]
               /\ line_count' = line_count + 1
               /\ h' = [h EXCEPT !.rec_by = @ \cup {f.id}]
               /\ pc' = "flush"
               /\ UNCHANGED fs
          ELSE /\ Crash
               /\ UNCHANGED <<line_count, h>>
    /\ UNCHANGED <<clock, logs_dir, p0, roll, pitch, last_t, last_status, n,
                   csv_path, now, dt, sample, alt_m, accel_g, status_out>>

\* line 95
FlushDueAfterFirst(count) == count % flush_every = 1
FlushDueEvery26(count) == count % (flush_every + 1) = 0
FlushDue(count) == count % flush_every = 0

\* lines 95-96
Flush ==
    /\ pc = "flush"
    /\ IF FlushDue(line_count)
       THEN /\ fs' = WrittenThrough(fs, f, csv_path)
            /\ f' = [f EXCEPT !.buf = <<>>]
            /\ h' = [h EXCEPT !.flushes = @ + 1]
       ELSE UNCHANGED <<fs, f, h>>
    /\ pc' = "status"
    /\ UNCHANGED <<clock, logs_dir, p0, roll, pitch, last_t, last_status, n,
                   csv_path, line_count, now, dt, sample, alt_m, accel_g,
                   status_out>>

\* line 99
StatusDueStrict(t, last) == t - last > StatusMs
StatusDue(t, last) == t - last >= StatusMs

\* lines 99-101
Status ==
    /\ pc = "status"
    /\ IF StatusDue(now, last_status)
       THEN /\ status_out' = Append(status_out, StatusLine(alt_m, accel_g, roll, pitch))
            /\ last_status' = now
       ELSE UNCHANGED <<status_out, last_status>>
    /\ pc' = "sleep"
    /\ UNCHANGED <<clock, fs, logs_dir, f, p0, roll, pitch, last_t, n, csv_path,
                   line_count, now, dt, sample, alt_m, accel_g, h>>

\* line 103: the sleep lasts 50 ms, or longer by a lateness in J; the
\* iteration is complete when it returns.  maxLate caps the late wake-ups.
Sleep(J, maxLate) ==
    /\ pc = "sleep"
    /\ \E j \in J :
          /\ j > 0 => h.late < maxLate
          /\ clock' = clock + SleepMs + j
          /\ h' = [h EXCEPT !.iters = @ + 1,
                            !.late = IF j > 0 THEN @ + 1 ELSE @]
    /\ pc' = "tick"
    /\ UNCHANGED <<fs, logs_dir, f, p0, roll, pitch, last_t, last_status, n,
                   csv_path, line_count, now, dt, sample, alt_m, accel_g,
                   status_out>>

\* ------------------------------------------------------ specifications
Program(B, A, G, P, D, J, maxIter, maxLate) ==
    \/ CaptureP0(B)
    \/ SeedAttitude(A)
    \/ StampClock
    \/ ensure_dir
    \/ next_csv_enter
    \/ next_csv_probe
    \/ CreateLog(D)
    \/ WriteHeader
    \/ CloseHeader
    \/ InitCounters
    \/ OpenAppend
    \/ Tick(maxIter)
    \/ Sense(A, G, P)
    \/ Compute
    \/ WriteRecord
    \/ Flush
    \/ Status
    \/ Sleep(J, maxLate)

\* log_001 .. log_00k, with or without a gap
FileSets == SUBSET {CsvName(k) : k \in 1 .. MaxFiles}

\* In flight: any reading at any time, a steady clock.
Init == InitWith(FileSets, {3000})
Next == Program(Baselines, Accels, Gyros, Pressures, {0, 20}, {0}, MaxIter, 0)
Spec == Init /\ [][Next]_vars

\* On the bench: the payload at rest and level, an unsteady clock, a long run.
BenchFiles == {{}, {CsvName(1)}}
Lateness == {0, 30, 950}
InitBench == InitWith(BenchFiles, {0, 3000})
NextBench ==
    Program(BenchPressures, {Level}, {<<0, 0>>}, BenchPressures,
            {0, 20}, Lateness, MaxIterBench, MaxLate)
SpecBench == InitBench /\ [][NextBench]_vars

\* -------------------------------------------------------------- claims
InLoop == pc \in LoopPcs
AfterCompute == pc \in {"write", "flush", "status", "sleep"}

\* C1: after N completed iterations exactly floor(N / 25) flushes have been
\* performed: counted in every state, the flushes number floor(k / 25) for
\* the k records whose flush check has run, so a flush falls in iterations
\* 25, 50, ... and in no other, and none before the first write.
C1_FlushCount ==
    /\ h.flushes = (IF pc = "flush" THEN line_count - 1 ELSE line_count) \div flush_every
    /\ pc = "tick" => line_count = h.iters /\ h.flushes = h.iters \div flush_every
C1_Witness == pc = "tick" /\ h.iters = 2 * flush_every /\ h.flushes = 2

\* Records written to the file object and not yet written through.
Unflushed == IF f.open /\ f.mode = "a" THEN Len(f.buf) ELSE 0
HeaderSafe == csv_path \in DOMAIN fs /\ Len(fs[csv_path]) >= 1 /\ fs[csv_path][1] = Header

\* C2 as stated: in every state of the loop at most 24 records are unflushed
\* and the header is on the medium.
C2_AtMost24 == InLoop => Unflushed <= flush_every - 1 /\ HeaderSafe

\* C2, amended: at most 25 records are unflushed in every state of the loop,
\* 25 only between the 25th write since the last flush and the flush that
\* follows it in the same iteration, at most 24 in every other state; the
\* header is on the medium throughout.
C2_AtMost25 ==
    (InLoop \/ pc = "crashed") =>
        /\ Unflushed <= flush_every
        /\ pc # "flush" => Unflushed <= flush_every - 1
        /\ HeaderSafe
C2_Witness == pc = "flush" /\ Unflushed = flush_every /\ line_count = 2 * flush_every

\* C3: the status step prints exactly when now - last_status >= 1.0 s, and
\* in no other step; last_status becomes now exactly when a line is printed
\* and is otherwise left alone once start-up has set it to last_t.  So two
\* consecutive status lines are at least 1.0 s apart, one per crossing.
C3_StatusCadence ==
    /\ [](pc = "mkdir" => last_status = last_t /\ last_status = h.t0)
    /\ [][/\ (status_out' # status_out) <=> (pc = "status" /\ now - last_status >= StatusMs)
          /\ (status_out' # status_out) =>
                /\ Len(status_out') = Len(status_out) + 1
                /\ last_status' = now
                /\ last_status' - last_status >= StatusMs
          /\ (status_out' = status_out /\ pc # "clock") => last_status' = last_status]_vars
C3_Witness == Len(status_out) >= 2 /\ h.late = 0 /\ pc = "sleep"

\* C4: at every iteration boundary the log is the header, once and first,
\* then one data line per completed iteration; every step leaves the log as
\* it was or appends to it the header (at creation) or the record formatted
\* from the current iteration's values.
C4_AppendOnly ==
    /\ [](pc = "tick" =>
            /\ Len(LogContent) = 1 + h.iters
            /\ LogContent[1] = Header
            /\ \A i \in 2 .. Len(LogContent) : LogContent[i] # Header)
    /\ [][\/ LogContent' = LogContent
          \/ pc = "header" /\ LogContent = <<>> /\ LogContent' = <<Header>>
          \/ pc = "write" /\
               LogContent' = Append(LogContent, RecordLine(alt_m, accel_g, roll, pitch))]_vars
C4_Witness ==
    pc = "tick" /\ h.iters = 2 /\ Len(LogContent) = 3 /\ LogContent[2] # LogContent[3]

\* C5 as stated: a baseline p0 <= 0 never reaches the loop and never has a
\* data record written.
C5_BaselineValidated ==
    /\ (InLoop \/ pc = "crashed") => p0 > 0
    /\ (pc \notin {"capture"} /\ p0 <= 0) => line_count = 0

\* C6 as stated: with p0 > 0, an iteration that read p <= 0 does not end the
\* loop and reports the invalid-altitude sentinel.
C6_InvalidSentinel ==
    (p0 > 0 /\ sample.p <= 0 /\ (AfterCompute \/ pc = "crashed")) =>
        pc # "crashed" /\ alt_m.kind = "invalid"

\* C7: next_csv probes 001, 002, ... in order, stops within one probe more
\* than there are files, and returns the name of the least n >= 1 that did
\* not exist; no file that existed is ever changed.
C7_FirstUnused ==
    /\ pc = "probe" =>
          /\ n >= 1 /\ n <= Cardinality(DOMAIN h.fs0) + 1
          /\ \A k \in 1 .. n - 1 : CsvName(k) \in DOMAIN h.fs0
    /\ csv_path # "" =>
          /\ csv_path = CsvName(n)
          /\ csv_path \notin DOMAIN h.fs0
          /\ \A k \in 1 .. n - 1 : CsvName(k) \in DOMAIN h.fs0
    /\ \A nm \in DOMAIN h.fs0 : nm \in DOMAIN fs /\ fs[nm] = h.fs0[nm]
C7_Witness ==
    /\ pc = "tick" /\ h.iters >= 1
    /\ DOMAIN h.fs0 = {CsvName(1), CsvName(2)}
    /\ csv_path = "/logs/log_003.csv"

SeedAngles == accel_angles_deg(h.seed[1], h.seed[2], h.seed[3])

\* C8: with a valid baseline and static input (the seed's acceleration in
\* every iteration, no rotation, pressure equal to the baseline) roll and
\* pitch stay at their seed for every dt, altitude is 0, and all data lines
\* are the same line; for the level sample it is 0.00,1.000,0.00,0.00.
C8_StaticFixedPoint ==
    (h.static /\ p0 > 0 /\ pc \notin {"capture", "seed"}) =>
        /\ roll = SeedAngles[1] /\ pitch = SeedAngles[2]
        /\ AfterCompute => alt_m = Real(0)
        /\ pc # "crashed"
        /\ pc = "tick" => Len(LogContent) = 1 + h.iters
        /\ \A i \in 2 .. Len(LogContent) :
              /\ LogContent[i] = LogContent[2]
              /\ h.seed = Level => LogContent[i] = "0.00,1.000,0.00,0.00"
              /\ h.seed = Tilted => LogContent[i] = "0.00,1.414,90.00,-45.00"
C8_Witness ==
    /\ h.static /\ p0 > 0 /\ pc = "tick" /\ h.iters = 2 /\ dt > 0
    /\ h.seed = Tilted /\ Len(LogContent) = 3

StartupOrder == <<"p0", "attitude", "clock", "file">>

\* C9 as stated: the four start-up steps run once each, in order, and the
\* file object that wrote the header stays open and takes every record.
C9_OneHandle ==
    (InLoop \/ pc = "crashed") =>
        /\ h.steps = StartupOrder
        /\ InLoop => f.open /\ f.id = h.hdr_by
        /\ h.rec_by \subseteq {h.hdr_by}

\* C9, amended: the four start-up steps run once each, in order; the file
\* object that wrote the header is closed before the loop, and a second one,
\* opened in append mode on the same path before the first iteration, stays
\* open for the loop and takes every record; p0 is never modified after its
\* capture.
C9_StartupThenAppend ==
    /\ []((InLoop \/ pc = "crashed") =>
            /\ h.steps = StartupOrder
            /\ h.hdr_by = 1 /\ h.opened = 2 /\ f.id = 2 /\ f.mode = "a"
            /\ InLoop => f.open
            /\ h.rec_by \subseteq {f.id}
            /\ HeaderSafe)
    /\ [](pc = "mkdir" => last_t = clock /\ last_status = last_t)
    /\ [][pc # "capture" => p0' = p0]_vars
C9_Witness ==
    pc = "tick" /\ h.iters = 2 /\ h.rec_by = {2} /\ h.hdr_by = 1

\* C10: the dt of each iteration is its clock reading minus the previous
\* iteration's (the start-up last_t for the first), so dt >= 0 and the dt's
\* handed to the filter sum to the latest reading minus the start-up last_t.
C10_ElapsedDt ==
    /\ dt >= 0
    /\ pc \in {"sense", "compute"} => h.dt_sum + dt = now - h.t0 /\ last_t = now
    /\ AfterCompute => h.dt_sum = now - h.t0 /\ last_t = now
    /\ (pc = "tick" /\ h.iters > 0) => h.dt_sum = last_t - h.t0
C10_Witness ==
    pc = "write" /\ h.iters >= 2 /\ h.late = 1 /\ dt > SleepMs /\ h.t0 > 0

====
